---- MODULE Spec2Model ----
\* Job lifecycle manager of the podcast microservice: the in-memory JobQueue
\* (services/jobQueue.ts), the polling scheduler and the processJob pipeline
\* (services/jobProcessor.ts), the webhook notifier (services/webhook.ts) and
\* the persistent podcast records (services/podcastDatabase.ts).
\*
\* JavaScript runs one callback at a time, so every action below is one
\* synchronous segment: a timer callback, an API call, or the continuation of
\* processJob from the return (or throw) of one awaited collaborator up to the
\* next await.
EXTENDS Integers, Sequences, FiniteSets, TLC

\* ------------------------------------------------------------------ bounds
MaxJobs == 2          \* createJob calls in one run
MaxClockSteps == 1    \* clock advances in one run
MaxSuffix == 1        \* distinct outcomes of the Math.random() id suffix

\* --------------------------------------------------------- program constants
OneDay == 86400000    \* 24 * 60 * 60 * 1000 ms, the retention window

\* ------------------------------------------------------------------ inputs
\* the requests submitted: (noteId, noteContent, userId, duration)
Requests == {<<"n1", "text", "u1", "short">>,
             <<"n1", "text", "u2", "long">>,
             <<"n2", "text", "u1", "long">>}
\* the clock moves by exactly the retention window, or by 1 ms more
ClockDeltas == {OneDay, OneDay + 1}
Suffixes == 1..MaxSuffix
Transcripts == {<<"host">>}        \* what generateAudio's segments map to
TotalDurations == {297}            \* what combineAudio reports

\* An optional field of a TypeScript object: absent, or present with a value.
Unset == <<>>
Some(v) == <<v>>
IsSet(f) == f # Unset

VARIABLES
    jobs,             \* JobQueue.jobs: the Map, as its entries in insertion order
    processingQueue,  \* JobQueue.processingQueue: every jobId ever pushed
    procs,            \* the processJob invocations started so far
    podcasts,         \* the Podcast collection behind podcastDb
    webhookCalls,     \* the payloads sendWebhook was invoked with
    posts,            \* the payloads handed to axios.post
    webhookUrl,       \* whether WEBHOOK_URL is configured
    now,              \* Date.now()
    clockSteps        \* how often the clock has moved

vars == <<jobs, processingQueue, procs, podcasts, webhookCalls, posts,
          webhookUrl, now, clockSteps>>

\* ------------------------------------------------------------ sequence helpers
Range(s) == {s[i] : i \in 1..Len(s)}

\* ------------------------------------------------------------------ JobQueue
JobIds == {jobs[i].jobId : i \in 1..Len(jobs)}

HasJob(jobId) == \E i \in 1..Len(jobs) : jobs[i].jobId = jobId

\* getJob: the record, or undefined (Unset)
getJob(jobId) ==
    IF HasJob(jobId)
    THEN Some(jobs[CHOOSE i \in 1..Len(jobs) : jobs[i].jobId = jobId])
    ELSE Unset

\* Object.assign(job, updates) for the fields named by `updates`
Assign(job, updates) ==
    [f \in DOMAIN job |-> IF f \in DOMAIN updates THEN updates[f] ELSE job[f]]

updateJob_Upsert(js, jobId, updates) ==
    IF \E i \in 1..Len(js) : js[i].jobId = jobId
    THEN [i \in 1..Len(js) |->
            IF js[i].jobId = jobId THEN Assign(js[i], updates) ELSE js[i]]
    ELSE Append(js, Assign([jobId |-> jobId, status |-> "queued", progress |-> 0,
                            currentStep |-> Unset, noteId |-> "", noteContent |-> "",
                            userId |-> "", duration |-> "short", podcastId |-> Unset,
                            audioUrl |-> Unset, audioDuration |-> Unset,
                            transcript |-> Unset, error |-> Unset, createdAt |-> 0,
                            startedAt |-> Unset, completedAt |-> Unset], updates))

\* updateJob: merge into the record with that id; nothing if there is none
updateJob(js, jobId, updates) ==
    [i \in 1..Len(js) |->
        IF js[i].jobId = jobId THEN Assign(js[i], updates) ELSE js[i]]

updateProgress_ClearsContent(js, jobId, progress, currentStep) ==
    updateJob(js, jobId, [progress |-> progress, currentStep |-> Some(currentStep),
                          noteContent |-> ""])

updateProgress(js, jobId, progress, currentStep) ==
    updateJob(js, jobId, [progress |-> progress, currentStep |-> Some(currentStep)])

startJob_NoStartedAt(js, jobId, t) ==
    updateJob(js, jobId, [status |-> "processing", progress |-> 0])

startJob_NoStatus(js, jobId, t) ==
    updateJob(js, jobId, [startedAt |-> Some(t), progress |-> 0])

startJob(js, jobId, t) ==
    updateJob(js, jobId,
        [status |-> "processing", startedAt |-> Some(t), progress |-> 0])

completeJob_NoTranscript(js, jobId, podcastId, audioUrl, audioDuration, transcript, t) ==
    updateJob(js, jobId,
        [status |-> "completed", progress |-> 100,
         podcastId |-> Some(podcastId), audioUrl |-> Some(audioUrl),
         audioDuration |-> Some(audioDuration), completedAt |-> Some(t)])

completeJob_Progress95(js, jobId, podcastId, audioUrl, audioDuration, transcript, t) ==
    updateJob(js, jobId,
        [status |-> "completed",
         podcastId |-> Some(podcastId), audioUrl |-> Some(audioUrl),
         audioDuration |-> Some(audioDuration), transcript |-> Some(transcript),
         completedAt |-> Some(t)])

completeJob(js, jobId, podcastId, audioUrl, audioDuration, transcript, t) ==
    updateJob(js, jobId,
        [status |-> "completed", progress |-> 100,
         podcastId |-> Some(podcastId), audioUrl |-> Some(audioUrl),
         audioDuration |-> Some(audioDuration), transcript |-> Some(transcript),
         completedAt |-> Some(t)])

failJob_ResetsProgress(js, jobId, error, t) ==
    updateJob(js, jobId,
        [status |-> "failed", progress |-> 0, error |-> Some(error),
         completedAt |-> Some(t)])

failJob(js, jobId, error, t) ==
    updateJob(js, jobId,
        [status |-> "failed", error |-> Some(error), completedAt |-> Some(t)])

getAllJobs == jobs

CountStatus(s) == Cardinality({i \in 1..Len(jobs) : jobs[i].status = s})

getStats ==
    [total |-> Len(jobs),
     queued |-> CountStatus("queued"),
     processing |-> CountStatus("processing"),
     completed |-> CountStatus("completed"),
     failed |-> CountStatus("failed")]

\* the record createJob builds
NewJob(jobId, noteId, noteContent, userId, duration, t) ==
    [jobId |-> jobId, status |-> "queued", progress |-> 0,
     currentStep |-> Unset,
     noteId |-> noteId, noteContent |-> noteContent, userId |-> userId,
     duration |-> duration,
     podcastId |-> Unset, audioUrl |-> Unset, audioDuration |-> Unset,
     transcript |-> Unset, error |-> Unset,
     createdAt |-> t, startedAt |-> Unset, completedAt |-> Unset]

\* `job_${Date.now()}_${Math.random().toString(36).substr(2, 9)}`
MakeJobId(t, suffix) == <<"job", t, suffix>>

\* jobs.set(jobId, job): a new key goes to the end, an existing key keeps its place
MapSet(js, job) ==
    IF \E i \in 1..Len(js) : js[i].jobId = job.jobId
    THEN [i \in 1..Len(js) |-> IF js[i].jobId = job.jobId THEN job ELSE js[i]]
    ELSE Append(js, job)

\* Math.random(): the suffix drawn is taken never to repeat one drawn earlier in
\* the same millisecond. The code relies on this and has no check of its own.
FreshSuffix_Any(t, suffix) == TRUE

FreshSuffix(t, suffix) == MakeJobId(t, suffix) \notin Range(processingQueue)

createJob(noteId, noteContent, userId, duration, suffix) ==
    /\ Len(processingQueue) < MaxJobs
    /\ FreshSuffix(now, suffix)
    /\ jobs' = MapSet(jobs,
                  NewJob(MakeJobId(now, suffix), noteId, noteContent, userId,
                         duration, now))
    /\ processingQueue' = Append(processingQueue, MakeJobId(now, suffix))
    /\ UNCHANGED <<procs, podcasts, webhookCalls, posts, webhookUrl, now,
                   clockSteps>>

Expired_Inclusive(job, t) == job.createdAt <= t - OneDay

\* job.createdAt.getTime() < oneDayAgo, with oneDayAgo = Date.now() - 24h
Expired(job, t) == job.createdAt < t - OneDay

NewerFirst_Ascending(a, b) == a.createdAt - b.createdAt

\* the comparator of getUserJobs: (a, b) => b.createdAt - a.createdAt
NewerFirst(a, b) == b.createdAt - a.createdAt

\* x put into a list sorted by NewerFirst, behind what compares equal to it
Insert(sorted, x) ==
    LET n == Cardinality({i \in 1..Len(sorted) : NewerFirst(sorted[i], x) <= 0})
    IN  SubSeq(sorted, 1, n) \o <<x>> \o SubSeq(sorted, n + 1, Len(sorted))

\* Array.prototype.sort with NewerFirst: stable
RECURSIVE Sort(_)
Sort(s) ==
    IF s = <<>> THEN <<>>
    ELSE Insert(Sort(SubSeq(s, 1, Len(s) - 1)), s[Len(s)])

\* the records of one user, newest first
getUserJobs(userId) == Sort(SelectSeq(jobs, LAMBDA j : j.userId = userId))

cleanup_Notifies ==
    /\ jobs' = SelectSeq(jobs, LAMBDA j : ~Expired(j, now))
    /\ webhookCalls' =
          IF \E i \in 1..Len(jobs) : Expired(jobs[i], now)
          THEN LET j == jobs[CHOOSE i \in 1..Len(jobs) : Expired(jobs[i], now)]
               IN  Append(webhookCalls,
                     [event |-> "podcast.failed", jobId |-> j.jobId,
                      noteId |-> j.noteId, userId |-> j.userId,
                      duration |-> j.duration, podcastId |-> Unset,
                      audioUrl |-> Unset, audioDuration |-> Unset,
                      transcript |-> Unset, error |-> Some("expired"),
                      timestamp |-> now])
          ELSE webhookCalls
    /\ UNCHANGED <<processingQueue, procs, podcasts, posts,
                   webhookUrl, now, clockSteps>>

\* cleanup: delete every record created before now - 24h
cleanup ==
    /\ jobs' = SelectSeq(jobs, LAMBDA j : ~Expired(j, now))
    /\ UNCHANGED <<processingQueue, procs, podcasts, webhookCalls, posts,
                   webhookUrl, now, clockSteps>>

\* the clock
AdvanceClock(d) ==
    /\ clockSteps < MaxClockSteps
    /\ now' = now + d
    /\ clockSteps' = clockSteps + 1
    /\ UNCHANGED <<jobs, processingQueue, procs, podcasts, webhookCalls, posts,
                   webhookUrl>>

\* ------------------------------------------------------------ podcastDb
\* new Podcast({...data, status: 'generating'}) with the schema's defaults
NewPodcast(id, noteId, userId, noteContent, duration, t) ==
    [_id |-> id, noteId |-> noteId, userId |-> userId,
     noteContent |-> noteContent, duration |-> duration,
     audioUrl |-> "", audioDuration |-> 0, transcript |-> <<>>,
     status |-> "generating", error |-> Unset, createdAt |-> t]

\* Podcast.findByIdAndUpdate(id, {$set: data})
dbUpdatePodcast(ps, id, data) ==
    [i \in 1..Len(ps) |-> IF ps[i]._id = id THEN Assign(ps[i], data) ELSE ps[i]]

\* Podcast.find({noteId}).sort({createdAt: -1}): the records that may come
\* first (records of equal createdAt come in either order)
NewestOfNote(noteId) ==
    {p \in Range(podcasts) :
        /\ p.noteId = noteId
        /\ \A q \in Range(podcasts) : q.noteId = noteId => q.createdAt <= p.createdAt}

\* ------------------------------------------------------------ processJob
TryStages == {"createPodcast", "generateScript", "generateAudio",
              "combineAudio", "uploadToS3", "updatePodcast"}

\* the Error each collaborator throws (all of them wrap the cause)
StageError(stage) ==
    CASE stage = "createPodcast"  -> "Failed to create podcast"
      [] stage = "generateScript" -> "Failed to generate podcast script"
      [] stage = "generateAudio"  -> "Failed to generate audio"
      [] stage = "combineAudio"   -> "Failed to combine audio"
      [] stage = "uploadToS3"     -> "Failed to upload to S3"
      [] stage = "updatePodcast"  -> "Failed to update podcast"

ErrorMessage_Generic(thrown) == "Unknown error"

\* error instanceof Error ? error.message : 'Unknown error'
ErrorMessage(thrown) ==
    IF thrown.isError THEN thrown.message ELSE "Unknown error"

\* the locals of one processJob invocation
NewProc(job, t) ==
    [jobId |-> job.jobId, noteId |-> job.noteId, noteContent |-> job.noteContent,
     userId |-> job.userId, duration |-> job.duration,
     pc |-> "createPodcast", calledAt |-> t,
     podcastId |-> Unset, transcript |-> Unset, totalDuration |-> Unset,
     audioUrl |-> Unset, errorMessage |-> Unset, failedStage |-> Unset,
     podcast0 |-> Unset, delivery |-> Unset]

At(i, stage) == i \in 1..Len(procs) /\ procs[i].pc = stage

FirstQueued_FirstRecord == jobs[1]

FirstQueued_LastQueued ==
    jobs[CHOOSE i \in 1..Len(jobs) :
            /\ jobs[i].status = "queued"
            /\ \A k \in (i + 1)..Len(jobs) : jobs[k].status # "queued"]

\* the first record with status 'queued' in enumeration order
FirstQueued ==
    jobs[CHOOSE i \in 1..Len(jobs) :
            /\ jobs[i].status = "queued"
            /\ \A k \in 1..(i - 1) : jobs[k].status # "queued"]

CanStart_IgnoresProcessing(stats) == stats.queued > 0

CanStart_StopsAfterFailure(stats) ==
    stats.queued > 0 /\ stats.processing = 0 /\ stats.failed = 0

\* May the scheduler start a job now?
CanStart(stats) == stats.queued > 0 /\ stats.processing = 0

\* One firing of startJobProcessor's interval callback that finds work, with
\* processJob's synchronous prefix: startJob, updateProgress(5), and the call
\* of createPodcast.
Tick ==
    /\ CanStart(getStats)
    /\ jobs' = updateProgress(startJob(jobs, FirstQueued.jobId, now),
                              FirstQueued.jobId, 5, "Creating database record...")
    /\ procs' = Append(procs, NewProc(FirstQueued, now))
    /\ UNCHANGED <<processingQueue, podcasts, webhookCalls, posts, webhookUrl,
                   now, clockSteps>>

\* createPodcast returned: updateProgress(10), call generateScript
CreatePodcastReturns(i) ==
    /\ At(i, "createPodcast")
    /\ podcasts' = Append(podcasts,
            NewPodcast(Len(podcasts) + 1, procs[i].noteId, procs[i].userId,
                       procs[i].noteContent, procs[i].duration, procs[i].calledAt))
    /\ jobs' = updateProgress(jobs, procs[i].jobId, 10, "Generating podcast script...")
    /\ procs' = [procs EXCEPT ![i].podcastId = Some(Len(podcasts) + 1),
                              ![i].pc = "generateScript"]
    /\ UNCHANGED <<processingQueue, webhookCalls, posts, webhookUrl, now, clockSteps>>

GenerateScriptReturns_SkipsAudio(i) ==
    /\ At(i, "generateScript")
    /\ jobs' = updateProgress(jobs, procs[i].jobId, 25, "Generated dialogue segments")
    /\ procs' = [procs EXCEPT ![i].pc = "combineAudio"]
    /\ UNCHANGED <<processingQueue, podcasts, webhookCalls, posts, webhookUrl,
                   now, clockSteps>>

\* generateScript returned: updateProgress(25), updateProgress(30), call generateAudio
GenerateScriptReturns(i) ==
    /\ At(i, "generateScript")
    /\ jobs' = updateProgress(
                  updateProgress(jobs, procs[i].jobId, 25, "Generated dialogue segments"),
                  procs[i].jobId, 30, "Generating audio for each segment...")
    /\ procs' = [procs EXCEPT ![i].pc = "generateAudio"]
    /\ UNCHANGED <<processingQueue, podcasts, webhookCalls, posts, webhookUrl,
                   now, clockSteps>>

\* generateAudio returned: updateProgress(60), updateProgress(65), call combineAudio
GenerateAudioReturns(i, transcript) ==
    /\ At(i, "generateAudio")
    /\ jobs' = updateProgress(
                  updateProgress(jobs, procs[i].jobId, 60, "Generated audio segments"),
                  procs[i].jobId, 65, "Combining audio segments...")
    /\ procs' = [procs EXCEPT ![i].transcript = Some(transcript),
                              ![i].pc = "combineAudio"]
    /\ UNCHANGED <<processingQueue, podcasts, webhookCalls, posts, webhookUrl,
                   now, clockSteps>>

\* combineAudio returned: updateProgress(75), updateProgress(80), call uploadToS3
CombineAudioReturns(i, totalDuration) ==
    /\ At(i, "combineAudio")
    /\ jobs' = updateProgress(
                  updateProgress(jobs, procs[i].jobId, 75, "Audio combined successfully"),
                  procs[i].jobId, 80, "Uploading to S3...")
    /\ procs' = [procs EXCEPT ![i].totalDuration = Some(totalDuration),
                              ![i].pc = "uploadToS3"]
    /\ UNCHANGED <<processingQueue, podcasts, webhookCalls, posts, webhookUrl,
                   now, clockSteps>>

\* the public URL uploadToS3 builds from the note id and Date.now()
S3Url(noteId, t) == <<"podcasts", noteId, t>>

\* uploadToS3 returned: updateProgress(90), updateProgress(92), call updatePodcast
UploadToS3Returns(i) ==
    /\ At(i, "uploadToS3")
    /\ jobs' = updateProgress(
                  updateProgress(jobs, procs[i].jobId, 90, "Upload complete"),
                  procs[i].jobId, 92, "Updating database...")
    /\ procs' = [procs EXCEPT ![i].audioUrl = Some(S3Url(procs[i].noteId, now)),
                              ![i].pc = "updatePodcast"]
    /\ UNCHANGED <<processingQueue, podcasts, webhookCalls, posts, webhookUrl,
                   now, clockSteps>>

CompletedPayload_NoAudioUrl(p, t) ==
    [event |-> "podcast.completed", jobId |-> p.jobId, noteId |-> p.noteId,
     userId |-> p.userId, duration |-> p.duration,
     podcastId |-> p.podcastId, audioUrl |-> Unset,
     audioDuration |-> p.totalDuration, transcript |-> p.transcript,
     error |-> Unset, timestamp |-> t]

\* the payload of the completion webhook
CompletedPayload(p, t) ==
    [event |-> "podcast.completed", jobId |-> p.jobId, noteId |-> p.noteId,
     userId |-> p.userId, duration |-> p.duration,
     podcastId |-> p.podcastId, audioUrl |-> p.audioUrl,
     audioDuration |-> p.totalDuration, transcript |-> p.transcript,
     error |-> Unset, timestamp |-> t]

sendWebhook_Twice(payload) ==
    /\ webhookCalls' = Append(Append(webhookCalls, payload), payload)
    /\ posts' = IF webhookUrl THEN Append(Append(posts, payload), payload) ELSE posts

sendWebhook_AlwaysPosts(payload) ==
    /\ webhookCalls' = Append(webhookCalls, payload)
    /\ posts' = Append(posts, payload)

\* sendWebhook up to its await: nothing is posted without a WEBHOOK_URL
sendWebhook(payload) ==
    /\ webhookCalls' = Append(webhookCalls, payload)
    /\ posts' = IF webhookUrl THEN Append(posts, payload) ELSE posts

\* updatePodcast returned: updateProgress(95), completeJob, call sendWebhook
UpdatePodcastReturns(i) ==
    /\ At(i, "updatePodcast")
    /\ podcasts' = dbUpdatePodcast(podcasts, procs[i].podcastId[1],
            [audioUrl |-> procs[i].audioUrl[1],
             audioDuration |-> procs[i].totalDuration[1],
             transcript |-> procs[i].transcript[1],
             status |-> "completed"])
    /\ jobs' = completeJob(
                  updateProgress(jobs, procs[i].jobId, 95, "Database updated"),
                  procs[i].jobId, procs[i].podcastId[1], procs[i].audioUrl[1],
                  procs[i].totalDuration[1], procs[i].transcript[1], now)
    /\ sendWebhook(CompletedPayload(procs[i], now))
    /\ procs' = [procs EXCEPT ![i].pc = IF webhookUrl THEN "sendWebhook" ELSE "done"]
    /\ UNCHANGED <<processingQueue, webhookUrl, now, clockSteps>>

WebhookOutcomes == {"2xx", "non2xx", "error"}

SendWebhookReturns_Rethrows(i, outcome) ==
    /\ At(i, "sendWebhook")
    /\ outcome \in WebhookOutcomes
    /\ IF outcome = "error"
       THEN /\ jobs' = failJob(jobs, procs[i].jobId, "Webhook delivery failed", now)
            /\ procs' = [procs EXCEPT ![i].errorMessage = Some("Webhook delivery failed"),
                                      ![i].delivery = Some(outcome),
                                      ![i].pc = "getPodcastsByNote"]
       ELSE /\ procs' = [procs EXCEPT ![i].delivery = Some(outcome),
                                      ![i].pc = "done"]
            /\ jobs' = jobs
    /\ UNCHANGED <<processingQueue, podcasts, webhookCalls, posts,
                   webhookUrl, now, clockSteps>>

\* axios.post settled: a 2xx, another status, or an error (timeout included);
\* sendWebhook logs each and returns, and processJob ends
SendWebhookReturns(i, outcome) ==
    /\ At(i, "sendWebhook")
    /\ outcome \in WebhookOutcomes
    /\ procs' = [procs EXCEPT ![i].delivery = Some(outcome), ![i].pc = "done"]
    /\ UNCHANGED <<jobs, processingQueue, podcasts, webhookCalls, posts,
                   webhookUrl, now, clockSteps>>

OnStageFailure_NoFailJob(i, thrown) ==
    /\ jobs' = jobs
    /\ procs' = [procs EXCEPT ![i].errorMessage = Some(ErrorMessage(thrown)),
                              ![i].failedStage = Some(procs[i].pc),
                              ![i].pc = "getPodcastsByNote"]
    /\ UNCHANGED <<webhookCalls, posts>>

\* what the catch block does before its first await
OnStageFailure(i, thrown) ==
    /\ jobs' = failJob(jobs, procs[i].jobId, ErrorMessage(thrown), now)
    /\ procs' = [procs EXCEPT ![i].errorMessage = Some(ErrorMessage(thrown)),
                              ![i].failedStage = Some(procs[i].pc),
                              ![i].pc = "getPodcastsByNote"]
    /\ UNCHANGED <<webhookCalls, posts>>

\* a collaborator of the try block threw: failJob, call getPodcastsByNote
StageThrows(i) ==
    /\ i \in 1..Len(procs)
    /\ procs[i].pc \in TryStages
    /\ OnStageFailure(i, [isError |-> TRUE, message |-> StageError(procs[i].pc)])
    /\ UNCHANGED <<processingQueue, podcasts, webhookUrl, now, clockSteps>>

\* getPodcastsByNote returned: with a record, call updatePodcast on the first
GetPodcastsByNoteReturns(i) ==
    /\ At(i, "getPodcastsByNote")
    /\ IF NewestOfNote(procs[i].noteId) = {}
       THEN procs' = [procs EXCEPT ![i].pc = "done"]
       ELSE \E p \in NewestOfNote(procs[i].noteId) :
               procs' = [procs EXCEPT ![i].podcast0 = Some(p._id),
                                      ![i].pc = "markFailed"]
    /\ UNCHANGED <<jobs, processingQueue, podcasts, webhookCalls, posts,
                   webhookUrl, now, clockSteps>>

\* updatePodcast(podcast[0]._id, {status: 'failed', error}) returned
MarkFailedReturns(i) ==
    /\ At(i, "markFailed")
    /\ podcasts' = dbUpdatePodcast(podcasts, procs[i].podcast0[1],
            [status |-> "failed", error |-> procs[i].errorMessage])
    /\ procs' = [procs EXCEPT ![i].pc = "done"]
    /\ UNCHANGED <<jobs, processingQueue, webhookCalls, posts, webhookUrl,
                   now, clockSteps>>

\* either database call of the catch block threw: logged, processJob ends
HandlerThrows(i) ==
    /\ i \in 1..Len(procs)
    /\ procs[i].pc \in {"getPodcastsByNote", "markFailed"}
    /\ procs' = [procs EXCEPT ![i].pc = "done"]
    /\ UNCHANGED <<jobs, processingQueue, podcasts, webhookCalls, posts,
                   webhookUrl, now, clockSteps>>

Init ==
    /\ jobs = <<>>
    /\ processingQueue = <<>>
    /\ procs = <<>>
    /\ podcasts = <<>>
    /\ webhookCalls = <<>>
    /\ posts = <<>>
    /\ webhookUrl \in BOOLEAN
    /\ now = 0
    /\ clockSteps = 0

Next ==
    \/ \E r \in Requests, s \in Suffixes : createJob(r[1], r[2], r[3], r[4], s)
    \/ cleanup
    \/ Tick
    \/ \E i \in 1..Len(procs) : CreatePodcastReturns(i)
    \/ \E i \in 1..Len(procs) : GenerateScriptReturns(i)
    \/ \E i \in 1..Len(procs), t \in Transcripts : GenerateAudioReturns(i, t)
    \/ \E i \in 1..Len(procs), d \in TotalDurations : CombineAudioReturns(i, d)
    \/ \E i \in 1..Len(procs) : UploadToS3Returns(i)
    \/ \E i \in 1..Len(procs) : UpdatePodcastReturns(i)
    \/ \E i \in 1..Len(procs), o \in WebhookOutcomes : SendWebhookReturns(i, o)
    \/ \E i \in 1..Len(procs) : StageThrows(i)
    \/ \E i \in 1..Len(procs) : GetPodcastsByNoteReturns(i)
    \/ \E i \in 1..Len(procs) : MarkFailedReturns(i)
    \/ \E i \in 1..Len(procs) : HandlerThrows(i)
    \/ \E d \in ClockDeltas : AdvanceClock(d)

Spec == Init /\ [][Next]_vars

\* ------------------------------------------------------------ fair runs
\* any continuation of the i-th processJob: the awaited call returns or throws
ProcStep(i) ==
    \/ CreatePodcastReturns(i)
    \/ GenerateScriptReturns(i)
    \/ \E t \in Transcripts : GenerateAudioReturns(i, t)
    \/ \E d \in TotalDurations : CombineAudioReturns(i, d)
    \/ UploadToS3Returns(i)
    \/ UpdatePodcastReturns(i)
    \/ \E o \in WebhookOutcomes : SendWebhookReturns(i, o)
    \/ StageThrows(i)
    \/ GetPodcastsByNoteReturns(i)
    \/ MarkFailedReturns(i)
    \/ HandlerThrows(i)

\* one request shape, one clock jump past the retention window, and one more
\* suffix outcome than Suffixes: two jobs can be created in the same millisecond
LiveRequests == {<<"n1", "text", "u1", "short">>}
LiveSuffixes == 1..(MaxSuffix + 1)
LiveClockDeltas == {OneDay + 1}

LiveNext ==
    \/ \E r \in LiveRequests, s \in LiveSuffixes : createJob(r[1], r[2], r[3], r[4], s)
    \/ cleanup
    \/ \E d \in LiveClockDeltas : AdvanceClock(d)
    \/ Tick
    \/ \E i \in 1..Len(procs) : CreatePodcastReturns(i)
    \/ \E i \in 1..Len(procs) : GenerateScriptReturns(i)
    \/ \E i \in 1..Len(procs), t \in Transcripts : GenerateAudioReturns(i, t)
    \/ \E i \in 1..Len(procs), d \in TotalDurations : CombineAudioReturns(i, d)
    \/ \E i \in 1..Len(procs) : UploadToS3Returns(i)
    \/ \E i \in 1..Len(procs) : UpdatePodcastReturns(i)
    \/ \E i \in 1..Len(procs), o \in WebhookOutcomes : SendWebhookReturns(i, o)
    \/ \E i \in 1..Len(procs) : StageThrows(i)
    \/ \E i \in 1..Len(procs) : GetPodcastsByNoteReturns(i)
    \/ \E i \in 1..Len(procs) : MarkFailedReturns(i)
    \/ \E i \in 1..Len(procs) : HandlerThrows(i)

\* setInterval keeps firing the scheduler's callback, and every awaited
\* collaborator call eventually returns or throws; nothing is assumed of the
\* callers of createJob, of the clock or of the hourly cleanup
LiveSpec ==
    /\ Init /\ [][LiveNext]_vars
    /\ WF_vars(Tick)
    /\ \A i \in 1..MaxJobs : WF_vars(ProcStep(i))

\* ------------------------------------------------------------ the store alone
\* The exported jobQueue driven directly: any of its mutators, called for any
\* job in the store, in any order.
Progresses == {5, 95}
StoreUpdates == {[status |-> "queued"], [progress |-> 0]}

CallStartJob(jobId) ==
    /\ HasJob(jobId)
    /\ jobs' = startJob(jobs, jobId, now)
    /\ UNCHANGED <<processingQueue, procs, podcasts, webhookCalls, posts,
                   webhookUrl, now, clockSteps>>

CallUpdateProgress(jobId, progress) ==
    /\ HasJob(jobId)
    /\ jobs' = updateProgress(jobs, jobId, progress, "step")
    /\ UNCHANGED <<processingQueue, procs, podcasts, webhookCalls, posts,
                   webhookUrl, now, clockSteps>>

CallCompleteJob(jobId) ==
    /\ HasJob(jobId)
    /\ jobs' = completeJob(jobs, jobId, 1, S3Url("n1", now), 297, <<"host">>, now)
    /\ UNCHANGED <<processingQueue, procs, podcasts, webhookCalls, posts,
                   webhookUrl, now, clockSteps>>

CallFailJob(jobId) ==
    /\ HasJob(jobId)
    /\ jobs' = failJob(jobs, jobId, "Failed to generate audio", now)
    /\ UNCHANGED <<processingQueue, procs, podcasts, webhookCalls, posts,
                   webhookUrl, now, clockSteps>>

CallUpdateJob(jobId, updates) ==
    /\ HasJob(jobId)
    /\ jobs' = updateJob(jobs, jobId, updates)
    /\ UNCHANGED <<processingQueue, procs, podcasts, webhookCalls, posts,
                   webhookUrl, now, clockSteps>>

StoreNext ==
    \/ \E r \in LiveRequests, s \in LiveSuffixes : createJob(r[1], r[2], r[3], r[4], s)
    \/ \E id \in JobIds : CallStartJob(id)
    \/ \E id \in JobIds, p \in Progresses : CallUpdateProgress(id, p)
    \/ \E id \in JobIds : CallCompleteJob(id)
    \/ \E id \in JobIds : CallFailJob(id)
    \/ \E id \in JobIds, u \in StoreUpdates : CallUpdateJob(id, u)

StoreSpec == Init /\ [][StoreNext]_vars

\* ------------------------------------------------------------ properties

Terminal == {"completed", "failed"}

\* the records of js with the given id (one or none)
RecordsOf(js, jobId) == {js[i] : i \in {k \in 1..Len(js) : js[k].jobId = jobId}}

\* the invocations whose try block is still running
InPipeline == {i \in 1..Len(procs) : procs[i].pc \in TryStages}

\* C1: at most one record of the job store has status 'processing'.
C1_SingleProcessing == getStats.processing <= 1

\* the scheduler started a second job once the first was no longer processing
C1_Witness ==
    /\ getStats.processing = 1
    /\ Len(procs) = 2
    /\ procs[1].pc = "done"

\* C2: at most one processJob invocation is inside its pipeline (try block).
C2_OnePipeline == Cardinality(InPipeline) <= 1

\* C3: a record's status only ever steps queued -> processing,
\* processing -> completed or processing -> failed; completed and failed
\* records keep their status.
StatusStep(a, b) ==
    \/ a = b
    \/ <<a, b>> \in {<<"queued", "processing">>, <<"processing", "completed">>,
                    <<"processing", "failed">>}

C3_LegalTransitions ==
    [][\A i \in 1..Len(jobs) : \A r \in RecordsOf(jobs', jobs[i].jobId) :
          StatusStep(jobs[i].status, r.status)]_vars

\* one job has failed and a later one has completed
C3_Witness ==
    /\ \E i \in 1..Len(jobs) : jobs[i].status = "failed"
    /\ \E i \in 1..Len(jobs) : jobs[i].status = "completed"

\* C4: a completed or failed record is never written again; it can only be
\* removed by cleanup.
C4_TerminalFrozen ==
    [][\A i \in 1..Len(jobs) : jobs[i].status \in Terminal =>
          \A r \in RecordsOf(jobs', jobs[i].jobId) : r = jobs[i]]_vars

\* a record is terminal while its own processJob and a later job's still run
C4_Witness ==
    \E i \in 1..Len(procs), k \in 1..Len(procs) :
        /\ i # k
        /\ procs[i].pc \in {"sendWebhook", "getPodcastsByNote", "markFailed"}
        /\ \E r \in RecordsOf(jobs, procs[i].jobId) : r.status \in Terminal
        /\ procs[k].pc = "uploadToS3"

\* C5: result fields and error are unset while queued or processing; a
\* completed record has every result field and no error; a failed record has
\* a non-empty error and no result field.
NoResult(r) ==
    /\ r.podcastId = Unset /\ r.audioUrl = Unset
    /\ r.audioDuration = Unset /\ r.transcript = Unset

AllResult(r) ==
    /\ IsSet(r.podcastId) /\ IsSet(r.audioUrl)
    /\ IsSet(r.audioDuration) /\ IsSet(r.transcript)

C5_ResultXorError ==
    \A i \in 1..Len(jobs) :
        /\ jobs[i].status \in {"queued", "processing"} =>
              NoResult(jobs[i]) /\ jobs[i].error = Unset
        /\ jobs[i].status = "completed" =>
              AllResult(jobs[i]) /\ jobs[i].error = Unset
        /\ jobs[i].status = "failed" =>
              IsSet(jobs[i].error) /\ jobs[i].error # Some("") /\ NoResult(jobs[i])

\* a job failed in its last stage, after every result value was computed
C5_Witness ==
    \E i \in 1..Len(procs) :
        /\ procs[i].failedStage = Some("updatePodcast")
        /\ \E r \in RecordsOf(jobs, procs[i].jobId) : r.status = "failed"

\* C6: every job that failed was announced by a 'podcast.failed' webhook
\* carrying its jobId, noteId, userId, duration and error.
C6_FailureNotified ==
    \A i \in 1..Len(procs) :
        (procs[i].pc = "done" /\ IsSet(procs[i].errorMessage)) =>
            \E k \in 1..Len(webhookCalls) :
                /\ webhookCalls[k].event = "podcast.failed"
                /\ webhookCalls[k].jobId = procs[i].jobId
                /\ webhookCalls[k].noteId = procs[i].noteId
                /\ webhookCalls[k].userId = procs[i].userId
                /\ webhookCalls[k].duration = procs[i].duration
                /\ webhookCalls[k].error = procs[i].errorMessage

\* C7: a job whose stages all succeeded has been announced by a
\* 'podcast.completed' webhook with its own values, and the job named by any
\* such webhook is never seen queued or processing: its record, unless
\* evicted, is completed and holds the values of the payload.
Succeeded(p) == p.pc = "sendWebhook" \/ (p.pc = "done" /\ p.errorMessage = Unset)

PayloadMatchesProc(w, p) ==
    /\ w.event = "podcast.completed"
    /\ w.jobId = p.jobId /\ w.noteId = p.noteId /\ w.userId = p.userId
    /\ w.duration = p.duration /\ w.podcastId = p.podcastId
    /\ w.audioUrl = p.audioUrl /\ w.audioDuration = p.totalDuration

PayloadMatchesRecord(w, r) ==
    /\ r.status = "completed"
    /\ w.jobId = r.jobId /\ w.noteId = r.noteId /\ w.userId = r.userId
    /\ w.duration = r.duration /\ w.podcastId = r.podcastId
    /\ w.audioUrl = r.audioUrl /\ w.audioDuration = r.audioDuration
    /\ IsSet(r.podcastId) /\ IsSet(r.audioUrl) /\ IsSet(r.audioDuration)

C7_CompletedNotified ==
    /\ \A i \in 1..Len(procs) : Succeeded(procs[i]) =>
          \E k \in 1..Len(webhookCalls) : PayloadMatchesProc(webhookCalls[k], procs[i])
    /\ \A k \in 1..Len(webhookCalls) :
          webhookCalls[k].event = "podcast.completed" =>
              \A r \in RecordsOf(jobs, webhookCalls[k].jobId) :
                  PayloadMatchesRecord(webhookCalls[k], r)

\* a completion webhook is out for a job whose record is in the store
C7_Witness ==
    \E k \in 1..Len(webhookCalls) :
        /\ webhookCalls[k].event = "podcast.completed"
        /\ RecordsOf(jobs, webhookCalls[k].jobId) # {}

\* C8: progress is an integer in 0..100, is 0 while queued, and is 100
\* exactly when the record is completed.
C8_ProgressRange ==
    \A i \in 1..Len(jobs) :
        /\ jobs[i].progress \in 0..100
        /\ jobs[i].status = "queued" => jobs[i].progress = 0
        /\ jobs[i].progress = 100 <=> jobs[i].status = "completed"

\* a job failed at progress 92 while another is completed at 100
C8_Witness ==
    /\ \E i \in 1..Len(jobs) : jobs[i].status = "failed" /\ jobs[i].progress = 92
    /\ \E i \in 1..Len(jobs) : jobs[i].status = "completed" /\ jobs[i].progress = 100

\* C9: the progress of a record never decreases.
C9_ProgressMonotone ==
    [][\A i \in 1..Len(jobs) : \A r \in RecordsOf(jobs', jobs[i].jobId) :
          jobs[i].progress <= r.progress]_vars

\* a record went all the way from 0 to 100 and another stopped on a failure
C9_Witness ==
    /\ \E i \in 1..Len(jobs) : jobs[i].progress = 100
    /\ \E i \in 1..Len(jobs) : jobs[i].status = "failed" /\ jobs[i].progress = 65

ProcsOf(jobId) == {i \in 1..Len(procs) : procs[i].jobId = jobId}

\* processJob has passed its completeJob or failJob call
PastTerminal(p) == p.pc \in {"sendWebhook", "getPodcastsByNote", "markFailed", "done"}

\* the job's record is, or its processJob has made it, completed or failed
ReachedTerminal(jobId) ==
    \/ \E r \in RecordsOf(jobs, jobId) : r.status \in Terminal
    \/ \E i \in ProcsOf(jobId) : PastTerminal(procs[i])

StillQueued(r) == r.status = "queued" /\ r.progress = 0 /\ r.startedAt = Unset

\* C11 (as claimed): a job created after A is queued, with progress 0 and no
\* startedAt, until A has become completed or failed.
C11_QueuedUntilTerminal ==
    \A a \in 1..Len(processingQueue), b \in 1..Len(processingQueue) :
        (a < b /\ ~ReachedTerminal(processingQueue[a])) =>
            /\ \A r \in RecordsOf(jobs, processingQueue[b]) : StillQueued(r)
            /\ ProcsOf(processingQueue[b]) = {}

\* C11 (amended): while the record of A is in the store and is queued or
\* processing, every record created after it is queued, with progress 0 and
\* no startedAt.
C11_QueuedBehind ==
    \A i \in 1..Len(jobs), k \in 1..Len(jobs) :
        (i < k /\ jobs[i].status \in {"queued", "processing"}) => StillQueued(jobs[k])

\* B waits while A is far into its pipeline
C11_Witness ==
    /\ Len(jobs) = 2
    /\ jobs[1].status = "processing" /\ jobs[1].progress = 80
    /\ StillQueued(jobs[2])

\* the k-th job created
Created(k) == k <= Len(processingQueue)
QueuedAt(k) ==
    Created(k) /\ \E r \in RecordsOf(jobs, processingQueue[k]) : r.status = "queued"
StartedAt(k) == Created(k) /\ ProcsOf(processingQueue[k]) # {}
EvictedAt(k) == Created(k) /\ ~HasJob(processingQueue[k])
\* the k-th job is queued and another job, failed by now, failed at a later
\* clock reading than the k-th was created at
QueuedAtFailure(k) ==
    /\ Created(k)
    /\ \E r \in RecordsOf(jobs, processingQueue[k]) :
          /\ r.status = "queued"
          /\ \E i \in 1..Len(jobs) :
                /\ jobs[i].status = "failed"
                /\ jobs[i].completedAt[1] > r.createdAt

\* the step in which one record becomes failed leaves every other record as it was
FailureIsLocal ==
    \A i \in 1..Len(jobs) :
        (/\ jobs[i].status # "failed"
         /\ \E r \in RecordsOf(jobs', jobs[i].jobId) : r.status = "failed")
        => \A k \in 1..Len(jobs) :
              k # i => RecordsOf(jobs', jobs[k].jobId) = {jobs[k]}

\* C12 (as claimed): a failure leaves the other records unchanged, and a job
\* that is queued when some job has failed is eventually started.
C12_QueuedEventuallyStarts ==
    /\ [][FailureIsLocal]_vars
    /\ \A k \in 1..MaxJobs : QueuedAtFailure(k) ~> StartedAt(k)

\* C12 (amended): a failure leaves the other records unchanged, and a job that
\* is queued when some job has failed is eventually started, unless cleanup
\* removes its record first.
C12_FailureDoesNotStopScheduler ==
    /\ [][FailureIsLocal]_vars
    /\ \A k \in 1..MaxJobs : QueuedAtFailure(k) ~> (StartedAt(k) \/ EvictedAt(k))

\* the first job failed while the second was queued, and the scheduler then
\* started the second
C12_Witness ==
    /\ Len(procs) = 2
    /\ procs[1].failedStage = Some("generateAudio")
    /\ procs[2].pc = "generateScript"
    /\ \E r \in RecordsOf(jobs, procs[1].jobId) :
          /\ r.status = "failed"
          /\ \E q \in RecordsOf(jobs, procs[2].jobId) :
                r.completedAt[1] > q.createdAt

DeliveryFailed(p) == p.delivery \in {Some("non2xx"), Some("error")}

\* the record holds the result processJob passed to completeJob
ResultOf(r, p) ==
    /\ r.status = "completed" /\ r.progress = 100 /\ r.error = Unset
    /\ r.podcastId = p.podcastId /\ r.audioUrl = p.audioUrl
    /\ r.audioDuration = p.totalDuration /\ r.transcript = p.transcript

\* C13: the step in which a delivery attempt settles leaves the store as it
\* was and ends processJob outside its catch branch; after a failed delivery
\* the job's record is still completed with the result completeJob stored.
C13_DeliveryFailureHarmless ==
    /\ [][\A i \in 1..Len(procs) :
            (At(i, "sendWebhook") /\ procs'[i].pc # "sendWebhook") =>
                /\ jobs' = jobs
                /\ procs'[i].pc = "done"
                /\ procs'[i].errorMessage = Unset
                /\ procs'[i].failedStage = Unset]_vars
    /\ [](\A i \in 1..Len(procs) : DeliveryFailed(procs[i]) =>
            /\ procs[i].pc = "done"
            /\ procs[i].errorMessage = Unset
            /\ \A r \in RecordsOf(jobs, procs[i].jobId) : ResultOf(r, procs[i]))

\* a delivery ended in an error and the job's record is in the store
C13_Witness ==
    \E i \in 1..Len(procs) :
        /\ procs[i].delivery = Some("error")
        /\ \E r \in RecordsOf(jobs, procs[i].jobId) : ResultOf(r, procs[i])

CallsFor(calls, jobId) == {n \in 1..Len(calls) : calls[n].jobId = jobId}

\* C14: no job id has more than one sendWebhook call or more than one POST,
\* and a delivery that failed stays the only one for its job.
C14_AtMostOnce ==
    /\ \A n \in 1..Len(webhookCalls) :
          Cardinality(CallsFor(webhookCalls, webhookCalls[n].jobId)) = 1
    /\ \A n \in 1..Len(posts) :
          Cardinality(CallsFor(posts, posts[n].jobId)) = 1
    /\ \A i \in 1..Len(procs) : DeliveryFailed(procs[i]) =>
          Cardinality(CallsFor(posts, procs[i].jobId)) = 1

\* a delivery got a non-2xx answer, processJob has ended, and a later job
\* has been notified too
C14_Witness ==
    /\ Len(posts) = 2
    /\ \E i \in 1..Len(procs) :
          /\ procs[i].delivery = Some("non2xx")
          /\ procs[i].pc = "done"
          /\ posts[1].jobId = procs[i].jobId

\* C15: no two runs of processJob are for the same job id, and a run starts
\* only for a record whose status is queued.
C15_StartedOnce ==
    /\ [](\A i, k \in 1..Len(procs) : i # k => procs[i].jobId # procs[k].jobId)
    /\ [][Len(procs') > Len(procs) =>
            /\ Len(procs') = Len(procs) + 1
            /\ \E r \in RecordsOf(jobs, procs'[Len(procs')].jobId) :
                  r.status = "queued"]_vars

\* a failed job stayed in the store while the scheduler ran the next job to
\* its end
C15_Witness ==
    /\ Len(procs) = 2
    /\ procs[2].pc = "done"
    /\ \E r \in RecordsOf(jobs, procs[1].jobId) : r.status = "failed"

ProcessingAt(k) ==
    Created(k) /\ \E r \in RecordsOf(jobs, processingQueue[k]) : r.status = "processing"
TerminalAt(k) ==
    Created(k) /\ \E r \in RecordsOf(jobs, processingQueue[k]) : r.status \in Terminal

\* no step takes a processing record back to queued, and no step ends a run
\* of processJob that is inside its try block other than by moving it on
NoRequeueNoCancel ==
    /\ \A i \in 1..Len(jobs) : jobs[i].status = "processing" =>
          \A r \in RecordsOf(jobs', jobs[i].jobId) : r.status # "queued"
    /\ Len(procs') >= Len(procs)
    /\ \A i \in 1..Len(procs) : procs'[i].jobId = procs[i].jobId

\* the k-th job's run of processJob is past its completeJob or failJob call,
\* and the record is completed or failed, or is gone
RanToEnd(k) ==
    /\ TerminalAt(k) \/ EvictedAt(k)
    /\ \A i \in ProcsOf(processingQueue[k]) : PastTerminal(procs[i])

\* C16 (as claimed): every job that enters processing eventually is completed
\* or failed, and nothing takes it back to queued or cancels it.
C16_ProcessingEventuallyTerminal ==
    /\ [][NoRequeueNoCancel]_vars
    /\ \A k \in 1..MaxJobs : ProcessingAt(k) ~> TerminalAt(k)

\* C16 (amended): every job that enters processing eventually is completed or
\* failed unless cleanup removes its record first; every run of processJob
\* gets to its completeJob or failJob call; nothing takes a processing job
\* back to queued or cancels it.
C16_RunsToEnd ==
    /\ [][NoRequeueNoCancel]_vars
    /\ \A k \in 1..MaxJobs : ProcessingAt(k) ~> RanToEnd(k)

\* a job went through every stage while the clock moved on, and its record
\* is completed
C16_Witness ==
    \E i \in 1..Len(procs) :
        /\ procs[i].pc = "done" /\ procs[i].delivery = Some("2xx")
        /\ clockSteps > 0
        /\ \E r \in RecordsOf(jobs, procs[i].jobId) :
              r.status = "completed" /\ r.completedAt[1] > r.createdAt

OlderThanADay(r) == now - r.createdAt > OneDay

\* js is the store without its records older than 24 hours
SweptStore(js) ==
    /\ \A i \in 1..Len(jobs) :
          RecordsOf(js, jobs[i].jobId) =
              IF OlderThanADay(jobs[i]) THEN {} ELSE {jobs[i]}
    /\ Len(js) = Cardinality({i \in 1..Len(jobs) : ~OlderThanADay(jobs[i])})

\* C17: what cleanup keeps is the store without the records older than 24
\* hours, each kept record as it was; every step that removes a record removes
\* exactly the records older than 24 hours, of any status.
C17_CleanupByAge ==
    /\ [](SweptStore(SelectSeq(jobs, LAMBDA j : ~Expired(j, now))))
    /\ [][Len(jobs') < Len(jobs) => SweptStore(jobs')]_vars

\* a record was removed while its job was processing, and a record created
\* later is still in the store
C17_Witness ==
    /\ Len(jobs) = 1
    /\ jobs[1].createdAt > 0
    /\ \E i \in InPipeline : ~HasJob(procs[i].jobId)

UserIds == {r[3] : r \in Requests}

\* C18: getUserJobs(u) lists every record of the store with userId u, once,
\* and nothing else, with createdAt not increasing along the list.
C18_UserJobsNewestFirst ==
    \A u \in UserIds :
        LET out == getUserJobs(u)
        IN  /\ \A i \in 1..Len(jobs) :
                  jobs[i].userId = u <=> \E n \in 1..Len(out) : out[n] = jobs[i]
            /\ \A n \in 1..Len(out) :
                  out[n].userId = u /\ out[n] \in RecordsOf(jobs, out[n].jobId)
            /\ Len(out) = Cardinality({i \in 1..Len(jobs) : jobs[i].userId = u})
            /\ \A n \in 1..(Len(out) - 1) : out[n].createdAt >= out[n + 1].createdAt

\* one user has two records created at different times; the list has the
\* later one first, the store the earlier one
C18_Witness ==
    /\ Len(jobs) = 2
    /\ jobs[1].createdAt < jobs[2].createdAt
    /\ getUserJobs("u1") = <<jobs[2], jobs[1]>>

\* ids with no record: those of removed jobs, and one never issued
AbsentIds ==
    {processingQueue[k] : k \in {n \in 1..Len(processingQueue) :
                                    ~HasJob(processingQueue[n])}}
        \cup {MakeJobId(now, 0)}

\* the five updates leave the store js as it is when addressed to jobId
NoOpOn(js, jobId) ==
    /\ updateJob(js, jobId, [status |-> "processing", progress |-> 50]) = js
    /\ updateProgress(js, jobId, 50, "step") = js
    /\ startJob(js, jobId, now) = js
    /\ completeJob(js, jobId, 1, S3Url("n1", now), 297, <<"host">>, now) = js
    /\ failJob(js, jobId, "Failed", now) = js

\* C19: an update addressed to an id without a record returns the store as
\* it was and getJob finds nothing; a step of processJob for a job whose
\* record is gone leaves the store unchanged.
C19_AbsentIdNoOp ==
    /\ [](\A id \in AbsentIds :
            ~HasJob(id) /\ getJob(id) = Unset /\ NoOpOn(jobs, id))
    /\ [][\A i \in 1..Len(procs) :
            (~HasJob(procs[i].jobId) /\ procs'[i] # procs[i]) => jobs' = jobs]_vars

\* processJob for a removed job went on to completeJob while another record
\* was in the store
C19_Witness ==
    /\ Len(jobs) = 1
    /\ \E i \in 1..Len(procs) :
          /\ ~HasJob(procs[i].jobId)
          /\ procs[i].pc \in {"sendWebhook", "done"}
          /\ procs[i].errorMessage = Unset

\* the k-th job's record was removed before the scheduler started the job
EvictedQueued(k) == EvictedAt(k) /\ ProcsOf(processingQueue[k]) = {}

\* C20: a step that removes records calls no webhook and starts nothing; a
\* job whose record was removed while queued never gets a run of processJob
\* or a webhook call; a webhook call is only ever made by a run of processJob
\* for that job.
C20_SilentEviction ==
    /\ [][Len(jobs') < Len(jobs) =>
            /\ webhookCalls' = webhookCalls /\ posts' = posts
            /\ procs' = procs /\ podcasts' = podcasts]_vars
    /\ [][\A k \in 1..Len(processingQueue) : EvictedQueued(k) => EvictedQueued(k)']_vars
    /\ [](\A n \in 1..Len(webhookCalls) : ProcsOf(webhookCalls[n].jobId) # {})
    /\ [](\A n \in 1..Len(posts) : ProcsOf(posts[n].jobId) # {})

\* one job's record was removed while queued, and the scheduler went on to
\* run and notify a later job
C20_Witness ==
    /\ \E k \in 1..Len(processingQueue) : EvictedQueued(k)
    /\ Len(posts) = 1
    /\ \E i \in 1..Len(procs) : procs[i].pc = "done"

\* C21: without a WEBHOOK_URL nothing is ever posted and no run of processJob
\* waits for a delivery; the step in which updatePodcast returns then ends
\* processJob outside its catch branch, with the record (if in the store)
\* completed, progress 100, and the result stored.
C21_NoUrlNoDelivery ==
    /\ [](~webhookUrl =>
            /\ posts = <<>>
            /\ \A i \in 1..Len(procs) :
                  procs[i].pc # "sendWebhook" /\ procs[i].delivery = Unset)
    /\ [][\A i \in 1..Len(procs) :
            (~webhookUrl /\ At(i, "updatePodcast") /\ procs'[i].pc = "done") =>
                /\ procs'[i].errorMessage = Unset
                /\ Len(webhookCalls') = Len(webhookCalls) + 1
                /\ \A r \in RecordsOf(jobs', procs[i].jobId) : ResultOf(r, procs'[i])]_vars

\* without a WEBHOOK_URL a job went through all stages: sendWebhook was
\* called, nothing was posted, the record is completed
C21_Witness ==
    /\ ~webhookUrl
    /\ Len(webhookCalls) = 1 /\ posts = <<>>
    /\ \E i \in 1..Len(procs) :
          /\ procs[i].pc = "done" /\ procs[i].errorMessage = Unset
          /\ \E r \in RecordsOf(jobs, procs[i].jobId) : ResultOf(r, procs[i])

\* C22: a podcast record becomes 'failed' only in the failure handler of the
\* job that created it.
C22_MarksOwnPodcast ==
    [][\A n \in 1..Len(podcasts) :
          (podcasts[n].status # "failed" /\ podcasts'[n].status = "failed") =>
              \E i \in 1..Len(procs) :
                  /\ procs[i].pc = "markFailed" /\ procs'[i].pc = "done"
                  /\ procs[i].podcastId = Some(podcasts[n]._id)]_vars

\* the collaborators of the try block, in the order processJob calls them
StageOrder == <<"createPodcast", "generateScript", "generateAudio",
                "combineAudio", "uploadToS3", "updatePodcast">>
StageIndex(stage) == CHOOSE n \in 1..Len(StageOrder) : StageOrder[n] = stage

\* what the stages before the awaited one have returned is there
ReturnsBefore(p) ==
    LET n == StageIndex(p.pc)
    IN  /\ IsSet(p.podcastId) <=> n > 1
        /\ IsSet(p.transcript) <=> n > 3
        /\ IsSet(p.totalDuration) <=> n > 4
        /\ IsSet(p.audioUrl) <=> n > 5

\* C23: a run of processJob starts at createPodcast; it moves to a stage only
\* from the stage before it, without a failure; a run in which a stage failed
\* is never at a stage again.
C23_StageOrder ==
    /\ [](\A i \in 1..Len(procs) :
            /\ procs[i].pc \in TryStages =>
                  /\ procs[i].failedStage = Unset /\ procs[i].errorMessage = Unset
                  /\ ReturnsBefore(procs[i])
            /\ IsSet(procs[i].failedStage) => procs[i].pc \notin TryStages)
    /\ [][/\ Len(procs') > Len(procs) => procs'[Len(procs')].pc = "createPodcast"
          /\ \A i \in 1..Len(procs) :
                (procs'[i].pc # procs[i].pc /\ procs'[i].pc \in TryStages) =>
                    /\ procs[i].pc \in TryStages
                    /\ StageIndex(procs'[i].pc) = StageIndex(procs[i].pc) + 1]_vars

\* a run failed at combineAudio: the three stages before it returned, the two
\* after it were never called
C23_Witness ==
    \E i \in 1..Len(procs) :
        /\ procs[i].pc = "done"
        /\ procs[i].failedStage = Some("combineAudio")
        /\ IsSet(procs[i].podcastId) /\ IsSet(procs[i].transcript)
        /\ procs[i].totalDuration = Unset /\ procs[i].audioUrl = Unset

\* the one run of processJob for the record r, if the job was started
RunOf(r) == {procs[i] : i \in ProcsOf(r.jobId)}

\* C24: a completed record belongs to a run whose six stages all returned; a
\* failed record belongs to a run in which a stage threw, and its error is
\* the message of what that stage threw.
C24_StatusReflectsStages ==
    \A n \in 1..Len(jobs) :
        /\ jobs[n].status \in Terminal => RunOf(jobs[n]) # {}
        /\ \A p \in RunOf(jobs[n]) :
              /\ jobs[n].status = "completed" =>
                    /\ p.pc \in {"sendWebhook", "done"}
                    /\ p.failedStage = Unset /\ p.errorMessage = Unset
                    /\ IsSet(p.podcastId) /\ IsSet(p.transcript)
                    /\ IsSet(p.totalDuration) /\ IsSet(p.audioUrl)
              /\ jobs[n].status = "failed" =>
                    /\ IsSet(p.failedStage)
                    /\ p.failedStage[1] \in TryStages
                    /\ jobs[n].error = Some(StageError(p.failedStage[1]))

\* one job failed in uploadToS3 and the next one completed
C24_Witness ==
    /\ Len(jobs) = 2
    /\ jobs[1].status = "failed" /\ jobs[1].error = Some("Failed to upload to S3")
    /\ jobs[2].status = "completed"

\* the place of a job in the order of the createJob calls
QueuePos(jobId) ==
    CHOOSE n \in 1..Len(processingQueue) : processingQueue[n] = jobId

\* C25: the job a tick starts is the first queued record in the store's
\* order, and the runs of processJob are started in the order in which
\* createJob created their jobs.
C25_StartedInCreationOrder ==
    /\ [](\A i, k \in 1..Len(procs) :
            i < k => QueuePos(procs[i].jobId) < QueuePos(procs[k].jobId))
    /\ [][Len(procs') > Len(procs) =>
            \E n \in 1..Len(jobs) :
                /\ jobs[n].jobId = procs'[Len(procs')].jobId
                /\ jobs[n].status = "queued"
                /\ \A m \in 1..(n - 1) : jobs[m].status # "queued"]_vars

\* two jobs were created at the same clock reading, both were queued for a
\* while, and both have been started
C25_Witness ==
    /\ Len(procs) = 2
    /\ procs[1].jobId[2] = procs[2].jobId[2]
    /\ procs[1].calledAt > procs[2].jobId[2]

\* status, progress, result and error of a record
Outcome(r) ==
    <<r.status, r.progress, r.podcastId, r.audioUrl, r.audioDuration,
      r.transcript, r.error>>

\* C26: whatever mutator of the store is called, a record that is completed
\* or failed keeps its status, progress, result fields and error.
C26_StoreKeepsTerminal ==
    [][\A i \in 1..Len(jobs) : jobs[i].status \in Terminal =>
          \A r \in RecordsOf(jobs', jobs[i].jobId) : Outcome(r) = Outcome(jobs[i])]_vars

\* C27 (as claimed): every job created is eventually started.
C27_EveryJobStarts ==
    \A k \in 1..MaxJobs : Created(k) ~> StartedAt(k)

\* C27 (amended): every job created is eventually started, unless cleanup
\* removes its record while it is queued.
C27_NoStarvation ==
    \A k \in 1..MaxJobs : Created(k) ~> (StartedAt(k) \/ EvictedQueued(k))

\* the second of two jobs created at the same clock reading was started
\* after the first had completed
C27_Witness ==
    /\ Len(procs) = 2
    /\ procs[1].jobId[2] = procs[2].jobId[2]
    /\ \E r \in RecordsOf(jobs, procs[1].jobId) : r.status = "completed"

TimesInOrder(r) ==
    /\ IsSet(r.startedAt) => r.createdAt <= r.startedAt[1]
    /\ (IsSet(r.startedAt) /\ IsSet(r.completedAt)) => r.startedAt[1] <= r.completedAt[1]
    /\ IsSet(r.completedAt) => r.createdAt <= r.completedAt[1]

\* C28: a record has startedAt exactly when it is not queued and completedAt
\* exactly when it is completed or failed, with createdAt <= startedAt <=
\* completedAt; a startedAt or completedAt once set is never written again.
C28_Timestamps ==
    /\ [](\A i \in 1..Len(jobs) :
            /\ IsSet(jobs[i].startedAt) <=> jobs[i].status # "queued"
            /\ IsSet(jobs[i].completedAt) <=> jobs[i].status \in Terminal
            /\ TimesInOrder(jobs[i]))
    /\ [][\A i \in 1..Len(jobs) : \A r \in RecordsOf(jobs', jobs[i].jobId) :
            /\ r.createdAt = jobs[i].createdAt
            /\ IsSet(jobs[i].startedAt) => r.startedAt = jobs[i].startedAt
            /\ IsSet(jobs[i].completedAt) => r.completedAt = jobs[i].completedAt]_vars

\* a job was started at one clock reading and completed at a later one,
\* while the next job is queued
C28_Witness ==
    /\ Len(jobs) = 2
    /\ jobs[1].status = "completed"
    /\ jobs[1].startedAt[1] < jobs[1].completedAt[1]
    /\ jobs[2].status = "queued" /\ jobs[2].startedAt = Unset

\* what createJob was given, and what it generated
Identity(r) == <<r.jobId, r.noteId, r.noteContent, r.userId, r.duration, r.createdAt>>

\* C29: no step changes the jobId, noteId, noteContent, userId, duration or
\* createdAt of a record; every record still has the creation time its id
\* was built from and the input its run of processJob read when it started.
C29_IdentityImmutable ==
    /\ [][\A i \in 1..Len(jobs) : \A r \in RecordsOf(jobs', jobs[i].jobId) :
            Identity(r) = Identity(jobs[i])]_vars
    /\ [](\A i \in 1..Len(jobs) :
            /\ jobs[i].createdAt = jobs[i].jobId[2]
            /\ \E q \in Requests :
                  <<jobs[i].noteId, jobs[i].noteContent, jobs[i].userId,
                    jobs[i].duration>> = q
            /\ \A p \in RunOf(jobs[i]) :
                  /\ p.noteId = jobs[i].noteId /\ p.userId = jobs[i].userId
                  /\ p.noteContent = jobs[i].noteContent
                  /\ p.duration = jobs[i].duration)

\* a job created later went through all stages after cleanup had removed
\* the record of the first job
C29_Witness ==
    /\ Len(jobs) = 1
    /\ EvictedAt(1)
    /\ jobs[1].status = "completed" /\ jobs[1].createdAt > 0

\* the podcast records with the given _id (one or none)
PodcastsOf(id) == {p \in Range(podcasts) : p._id = id}

\* C30: a completed job record names a podcast record that is completed and
\* has the same audioUrl and audioDuration.
C30_CompletedPodcastPersisted ==
    \A i \in 1..Len(jobs) : jobs[i].status = "completed" =>
        /\ PodcastsOf(jobs[i].podcastId[1]) # {}
        /\ \A p \in PodcastsOf(jobs[i].podcastId[1]) :
              /\ p.status = "completed"
              /\ Some(p.audioUrl) = jobs[i].audioUrl
              /\ Some(p.audioDuration) = jobs[i].audioDuration
====
